---- MODULE Spec2Model ----
(***************************************************************************)
(* Model of mysql-version: the version upgrade orchestrator (update), the  *)
(* backup and restore pipelines and the XOR crypt stream.                  *)
(*                                                                         *)
(* Version numbers are integers counting thousandths (1.00 is 1000), so    *)
(* that the rounding to two decimals done by update is a real operation.   *)
(* Bytes are small naturals, byte streams are sequences of bytes.          *)
(***************************************************************************)
EXTENDS Integers, Sequences, FiniteSets, TLC

VARIABLES
    versions,   \* dbu.versions: the package-global list of declared steps
    db,         \* the MySQL server: target database, its _ver table and rows
    upd,        \* the running (or last finished) call of update
    prev,       \* summary of the update call before the current one
    opt,        \* the options of backup and restore: tag, password, file, directory
    plain,      \* the bytes the producer writes into the first crypt stream
    enc,        \* the crypt stream of the writing side (backup)
    dec,        \* the crypt stream of the reading side (restore)
    fs,         \* the backup directory listing and the file restore resolves
    bk,         \* the running (or finished) call of backup
    rs          \* the running (or finished) call of restore

updVars == <<versions, db, upd, prev>>
cryptVars == <<opt, plain, enc, dec>>
pipeVars == <<fs, bk, rs>>
vars == <<versions, db, upd, prev, opt, plain, enc, dec, fs, bk, rs>>

(***************************************************************************)
(* Bounds of the model                                                     *)
(***************************************************************************)
MaxDeclared == 3        \* longest list of declared versions
MaxCalls == 2           \* update calls in one behaviour

\* declared version numbers (thousandths); none lies exactly between two
\* hundredths, where toFixed depends on the binary representation
VerInputs == {-4, 1000, 2000, 2996, 3000}
\* parseFloat(option.version) of the requested targets
TargetInputs == {1000, 2000, 2996, 3000}
\* rows a _ver table may hold before the first call
AppliedInputs == {1000, 2000, 3000}

MaxLen == 3             \* longest byte stream written by the producer
\* byte values of stream contents and of passwords
ByteInputs == {0, 1, 2, 255}
PasswordInputs == {<<>>, <<1>>, <<1, 2>>, <<3, 1>>}
MaxFile == 4            \* longest file restore is pointed at
\* byte values of the files restore is pointed at
FileByteInputs == {0, 1, 2}
\* backupFileTag values (the default tag has 11 bytes)
TagInputs == {<<1>>, <<1, 0>>}
\* what readdirSync(backupDir) may return
ListingInputs == {<<>>, <<1>>, <<1, 2>>, <<2, 1>>}

NoErr == ""
ErrInvalid == "version cannot <0"
ErrSame == "got same version"
ErrNone == "no version found"
ErrUnknown == "unknown version"
ErrProgram == "program error"
ErrSql == "sql error"

RECURSIVE SeqsUpTo(_, _)
SeqsUpTo(S, n) ==
    IF n = 0 THEN {<<>>}
    ELSE LET shorter == SeqsUpTo(S, n - 1)
         IN shorter \cup {Append(s, x) : s \in {t \in shorter : Len(t) = n - 1}, x \in S}

Range(s) == {s[k] : k \in 1..Len(s)}

(***************************************************************************)
(* update: pure parts                                                      *)
(***************************************************************************)
\* faulty variant: the third decimal is cut off instead of rounded
ToFixed2_Truncating(v) == 10 * (v \div 10)

\* parseFloat(ver.toFixed(2)): the nearest hundredth
ToFixed2(v) == 10 * ((v + 5) \div 10)

\* Array.prototype.sort with update's comparator: stable, ascending by ver
RECURSIVE InsertSorted(_, _)
InsertSorted(s, e) ==
    IF s = <<>> THEN <<e>>
    ELSE IF Head(s).ver > e.ver THEN <<e>> \o s
    ELSE <<Head(s)>> \o InsertSorted(Tail(s), e)

\* faulty variant: the declared order is kept
SortVersions_Unsorted(s) == s

\* versions.sort(...) ascending by ver
RECURSIVE SortVersions(_)
SortVersions(s) ==
    IF s = <<>> THEN <<>>
    ELSE InsertSorted(SortVersions(SubSeq(s, 1, Len(s) - 1)), s[Len(s)])

\* the forEach that rounds each entry in place and throws on the first
\* entry that is not positive or that was seen before
RECURSIVE Validate(_, _, _)
Validate(vs, k, vdict) ==
    IF k > Len(vs) THEN [versions |-> vs, err |-> NoErr]
    ELSE LET r == ToFixed2(vs[k].ver)
             vs2 == [vs EXCEPT ![k].ver = r]
         IN IF r <= 0 THEN [versions |-> vs2, err |-> ErrInvalid]
            ELSE IF r \in vdict THEN [versions |-> vs2, err |-> ErrSame]
            ELSE Validate(vs2, k + 1, vdict \cup {r})

\* faulty variant: only a strictly higher applied version satisfies a step
Dominated_Strict(dbVersions, ver) == \E dbv \in dbVersions : dbv > ver

\* dbVersions.some(dbv => dbv >= ver)
Dominated(dbVersions, ver) == \E dbv \in dbVersions : dbv >= ver

\* faulty variant: the target step itself is skipped
AboveDest_Inclusive(ver, dest) == ver >= dest

\* ver > dest
AboveDest(ver, dest) == ver > dest

\* faulty variant: the requested target is ignored
ResolveDest_Latest(target, vs) == vs[Len(vs)].ver

\* option.version ? parseFloat(option.version) : versions[versions.length - 1].ver
ResolveDest(target, vs) == IF target # <<>> THEN target[1] ELSE vs[Len(vs)].ver

\* faulty variant: the catch block leaves the connection as it is
UpdateCatch_NoClose(u, e) ==
    [u EXCEPT !.pc = "failed", !.cause = e, !.err = e,
              !.logged = Append(u.logged, "error")]

\* the catch block of update: log, close the connection if one is held,
\* rethrow the error that was caught
UpdateCatch(u, e) ==
    [u EXCEPT !.pc = "failed", !.cause = e, !.err = e,
              !.logged = Append(u.logged, "error"),
              !.conn = IF u.conn = "open" THEN "closed" ELSE u.conn,
              !.closes = IF u.conn = "open" THEN u.closes + 1 ELSE u.closes]

\* faulty variant: success is logged whether or not a step ran
UpdateFinish_AlwaysSuccess(u, msg) ==
    [u EXCEPT !.pc = "done", !.logged = Append(u.logged, "update successfully"),
              !.conn = "closed", !.closes = u.closes + 1, !.ret = {}]

\* conn.close(); conn = undefined at the end of the try block
UpdateFinish(u, msg) ==
    [u EXCEPT !.pc = "done", !.logged = Append(u.logged, msg),
              !.conn = "closed", !.closes = u.closes + 1, !.ret = {}]

Ev(op, ver) == [op |-> op, ver |-> ver]

IdleCall ==
    [pc |-> "idle", calls |-> 0, target |-> <<>>, declared |-> <<>>,
     dest |-> 0, i |-> 0, dbVersions |-> {}, updated |-> FALSE,
     conn |-> "none", closes |-> 0, err |-> NoErr, cause |-> NoErr,
     trace |-> <<>>, logged |-> <<>>, ret |-> {}, tblStart |-> {},
     dbStart |-> FALSE, charset |-> TRUE]

NoPrev == [ok |-> FALSE, target |-> <<>>, ran |-> <<>>, any |-> FALSE, tblStart |-> {}]

\* the versions whose program was started in the call u, in order
RECURSIVE ProgramsOf(_)
ProgramsOf(tr) ==
    IF tr = <<>> THEN <<>>
    ELSE LET rest == ProgramsOf(Tail(tr))
         IN IF Head(tr).op = "program" THEN <<Head(tr).ver>> \o rest ELSE rest

(***************************************************************************)
(* update: the steps of the async function                                 *)
(***************************************************************************)
\* lines 37-53: load, sort, validate, resolve the target, create the connection
UpdateBegin(target, charset) ==
    /\ upd.pc \in {"idle", "done", "failed"}
    /\ upd.calls < MaxCalls
    /\ prev' = IF upd.pc = "idle" THEN prev
               ELSE [ok |-> upd.pc = "done", target |-> upd.target,
                     ran |-> ProgramsOf(upd.trace), any |-> TRUE,
                     tblStart |-> upd.tblStart]
    /\ LET val == Validate(SortVersions(versions), 1, {})
           vs == val.versions
           u0 == [IdleCall EXCEPT !.pc = "begin", !.calls = upd.calls + 1,
                                  !.target = target, !.declared = versions,
                                  !.charset = charset,
                                  !.tblStart = db.rows, !.dbStart = db.exists]
       IN /\ versions' = vs
          /\ upd' = IF val.err # NoErr THEN UpdateCatch(u0, val.err)
                    ELSE IF Len(vs) = 0 THEN UpdateCatch(u0, ErrNone)
                    ELSE IF ~\E k \in 1..Len(vs) : vs[k].ver = ResolveDest(target, vs)
                         THEN UpdateCatch(u0, ErrUnknown)
                    ELSE [u0 EXCEPT !.pc = "connected",
                                    !.dest = ResolveDest(target, vs),
                                    !.conn = "open"]
    /\ UNCHANGED <<db, cryptVars, pipeVars>>

\* lines 55-67: show databases, create the database and _ver if missing, use;
\* databaseConfig.charset is passed to create database as it is, and the
\* statement is no SQL when it is undefined (escaped as NULL)
UpdateInitDb ==
    /\ upd.pc = "connected"
    /\ IF db.exists
       THEN /\ upd' = [upd EXCEPT !.pc = "inited",
                          !.trace = upd.trace \o <<Ev("show databases", 0), Ev("use", 0)>>]
            /\ UNCHANGED db
       ELSE IF ~upd.charset
       THEN /\ upd' = UpdateCatch([upd EXCEPT !.logged = Append(upd.logged, "info"),
                                      !.trace = upd.trace \o <<Ev("show databases", 0),
                                                               Ev("create database", 0)>>],
                                  ErrSql)
            /\ UNCHANGED db
       ELSE /\ upd' = [upd EXCEPT !.pc = "inited",
                          !.logged = Append(upd.logged, "info"),
                          !.trace = upd.trace \o <<Ev("show databases", 0),
                                                   Ev("create database", 0),
                                                   Ev("create table _ver", 0),
                                                   Ev("use", 0)>>]
            /\ db' = [exists |-> TRUE, hasVer |-> TRUE, rows |-> {}]
    /\ UNCHANGED <<versions, prev, cryptVars, pipeVars>>

\* lines 69-73: read the applied versions; nothing pending ends the call
UpdateSelect ==
    /\ upd.pc = "inited"
    /\ LET u1 == [upd EXCEPT !.trace = Append(upd.trace, Ev("select _ver", 0))]
       IN IF ~db.hasVer THEN upd' = UpdateCatch(u1, ErrSql)
          ELSE IF \A k \in 1..Len(versions) : Dominated(db.rows, versions[k].ver)
               THEN upd' = UpdateFinish([u1 EXCEPT !.dbVersions = db.rows], "nothing to be updated")
          ELSE upd' = [u1 EXCEPT !.pc = "loop", !.i = 1, !.dbVersions = db.rows]
    /\ UNCHANGED <<versions, db, prev, cryptVars, pipeVars>>

\* lines 76-81: a step that is already satisfied or above the target is skipped
UpdateSkip ==
    /\ upd.pc = "loop"
    /\ upd.i <= Len(versions)
    /\ \/ Dominated(upd.dbVersions, versions[upd.i].ver)
       \/ AboveDest(versions[upd.i].ver, upd.dest)
    /\ upd' = [upd EXCEPT !.i = upd.i + 1]
    /\ UNCHANGED <<versions, db, prev, cryptVars, pipeVars>>

\* faulty variant: the rows read at the start are not looked at
ProgramStart_IgnoresApplied ==
    /\ upd.pc = "loop"
    /\ upd.i <= Len(versions)
    /\ ~AboveDest(versions[upd.i].ver, upd.dest)
    /\ upd' = [upd EXCEPT !.pc = "program",
                          !.trace = Append(upd.trace, Ev("program", versions[upd.i].ver))]
    /\ UNCHANGED <<versions, db, prev, cryptVars, pipeVars>>

\* line 83: the upgrade program of the step is called
ProgramStart ==
    /\ upd.pc = "loop"
    /\ upd.i <= Len(versions)
    /\ ~Dominated(upd.dbVersions, versions[upd.i].ver)
    /\ ~AboveDest(versions[upd.i].ver, upd.dest)
    /\ upd' = [upd EXCEPT !.pc = "program",
                          !.trace = Append(upd.trace, Ev("program", versions[upd.i].ver))]
    /\ UNCHANGED <<versions, db, prev, cryptVars, pipeVars>>

\* line 83-85: the program resolved, the insert into _ver is sent
ProgramReturn ==
    /\ upd.pc = "program"
    /\ upd' = [upd EXCEPT !.pc = "insert",
                          !.trace = Append(upd.trace, Ev("insert _ver", versions[upd.i].ver))]
    /\ UNCHANGED <<versions, db, prev, cryptVars, pipeVars>>

\* line 83: the program rejected
ProgramThrow ==
    /\ upd.pc = "program"
    /\ upd' = UpdateCatch(upd, ErrProgram)
    /\ UNCHANGED <<versions, db, prev, cryptVars, pipeVars>>

\* lines 85-86: the row is stored (ver is the primary key)
InsertOk ==
    /\ upd.pc = "insert"
    /\ versions[upd.i].ver \notin db.rows
    /\ db' = [db EXCEPT !.rows = db.rows \cup {versions[upd.i].ver}]
    /\ upd' = [upd EXCEPT !.pc = "loop", !.updated = TRUE, !.i = upd.i + 1]
    /\ UNCHANGED <<versions, prev, cryptVars, pipeVars>>

\* faulty variant: the row is stored although the insert is rejected
InsertFail_RowStored ==
    /\ upd.pc = "insert"
    /\ db' = [db EXCEPT !.rows = db.rows \cup {versions[upd.i].ver}]
    /\ upd' = UpdateCatch(upd, ErrSql)
    /\ UNCHANGED <<versions, prev, cryptVars, pipeVars>>

\* line 85: the insert rejected
InsertFail ==
    /\ upd.pc = "insert"
    /\ upd' = UpdateCatch(upd, ErrSql)
    /\ UNCHANGED <<versions, db, prev, cryptVars, pipeVars>>

\* lines 88-92: the loop is over; log, close, return (nothing is returned)
UpdateEnd ==
    /\ upd.pc = "loop"
    /\ upd.i > Len(versions)
    /\ upd' = UpdateFinish(upd, IF upd.updated THEN "update successfully"
                                ELSE "nothing to be updated")
    /\ UNCHANGED <<versions, db, prev, cryptVars, pipeVars>>


(***************************************************************************)
(* createCryptStream                                                       *)
(***************************************************************************)
\* a ^ b on naturals
RECURSIVE Xor(_, _)
Xor(a, b) ==
    IF a = 0 /\ b = 0 THEN 0
    ELSE (((a % 2) + (b % 2)) % 2) + 2 * Xor(a \div 2, b \div 2)

\* faulty variant: the key offset restarts with every chunk
CryptTransform_PerChunk(password, index, chunk) ==
    IF Len(password) = 0 THEN [out |-> chunk, index |-> index]
    ELSE [out |-> [i \in 1..Len(chunk) |->
                      Xor(chunk[i], password[((i - 1) % Len(password)) + 1])],
          index |-> index + Len(chunk)]

\* transform(chunk): without a password the chunk passes through; with one,
\* byte i of the chunk is xor-ed with password[index % length], index running
\* over the whole stream
CryptTransform(password, index, chunk) ==
    IF Len(password) = 0 THEN [out |-> chunk, index |-> index]
    ELSE [out |-> [i \in 1..Len(chunk) |->
                      Xor(chunk[i], password[((index + i - 1) % Len(password)) + 1])],
          index |-> index + Len(chunk)]

\* let index = 0, nothing written yet; src is what waits to be written to the
\* stream, out what it has pushed, chunks the sizes of the chunks it was given
NewCryptStream == [index |-> 0, src |-> <<>>, out |-> <<>>, chunks |-> <<>>]

\* fileEncryptPassword (<<>>: none), backupFileTag, file (0: none), backupDir
\* ('' or a directory, a missing path, a file), filenameGenerator given or not
NoOptions ==
    [password |-> <<>>, tag |-> <<1>>, file |-> 0, hasDir |-> TRUE,
     dirKind |-> "dir", generator |-> FALSE]

\* one call of transform on the next n bytes waiting for the stream cs
CryptWrite(cs, password, n) ==
    LET chunk == SubSeq(cs.src, 1, n)
        t == CryptTransform(password, cs.index, chunk)
    IN [index |-> t.index,
        src |-> SubSeq(cs.src, n + 1, Len(cs.src)),
        out |-> cs.out \o t.out,
        chunks |-> Append(cs.chunks, n)]

\* the first stream transforms a chunk and pushes it to the second stream
EncryptChunk(n) ==
    /\ n \in 1..Len(enc.src)
    /\ enc' = CryptWrite(enc, opt.password, n)
    /\ dec' = [dec EXCEPT !.src = dec.src \o CryptTransform(opt.password, enc.index, SubSeq(enc.src, 1, n)).out]
    /\ UNCHANGED <<updVars, opt, plain, pipeVars>>

\* the second stream transforms a chunk of what has reached it
DecryptChunk(n) ==
    /\ n \in 1..Len(dec.src)
    /\ dec' = CryptWrite(dec, opt.password, n)
    /\ UNCHANGED <<updVars, opt, plain, enc, pipeVars>>

(***************************************************************************)
(* zlib: a lossless codec with a header, standing for gzip and gunzip       *)
(***************************************************************************)
GzHeader == <<2>>

\* length of the run of equal bytes that starts s
RECURSIVE RunLen(_)
RunLen(s) ==
    IF Len(s) <= 1 THEN Len(s)
    ELSE IF s[2] = s[1] THEN 1 + RunLen(Tail(s)) ELSE 1

RECURSIVE Deflate(_)
Deflate(s) ==
    IF s = <<>> THEN <<>>
    ELSE <<RunLen(s), s[1]>> \o Deflate(SubSeq(s, RunLen(s) + 1, Len(s)))

RECURSIVE Inflate(_)
Inflate(p) ==
    IF Len(p) < 2 THEN <<>>
    ELSE [k \in 1..p[1] |-> p[2]] \o Inflate(SubSeq(p, 3, Len(p)))

\* zlib.createGzip(): the whole stream, compressed
Gzip(s) == GzHeader \o Deflate(s)

\* zlib.createGunzip() accepts the stream or emits 'error'
GunzipOk(p) ==
    /\ Len(p) >= Len(GzHeader)
    /\ SubSeq(p, 1, Len(GzHeader)) = GzHeader
    /\ (Len(p) - Len(GzHeader)) % 2 = 0
    /\ \A k \in 1..Len(p) : (k > Len(GzHeader) /\ (k - Len(GzHeader)) % 2 = 1) => p[k] >= 1

Gunzip(p) == Inflate(SubSeq(p, Len(GzHeader) + 1, Len(p)))

(***************************************************************************)
(* backup                                                                  *)
(***************************************************************************)
ErrDirRequired == "backup directory is required"
ErrNotDirectory == "backup directory is not directory"
ErrNoVersionRow == "TypeError: cannot read ver of undefined"
ErrNotConstructor == "TypeError: err is not a constructor"

NoFiles == [listing |-> <<>>, kind |-> "missing", content |-> <<>>]

IdleBackup ==
    [pc |-> "idle", conn |-> "none", closes |-> 0, err |-> NoErr, cause |-> NoErr,
     trace |-> <<>>, logged |-> <<>>, outfile |-> 0, wsBuf |-> <<>>,
     dump |-> "none", ws |-> "none", exit |-> {}, uncaught |-> "none",
     dbStart |-> FALSE, useRejected |-> FALSE]

\* the catch block of backup: close the connection if one is held, log, and
\* `throw new err`, which raises a TypeError since err is no constructor
BackupCatch(b, e) ==
    [b EXCEPT !.pc = "failed", !.cause = e, !.err = ErrNotConstructor,
              !.logged = Append(b.logged, "error"),
              !.trace = IF b.conn = "open" THEN Append(b.trace, Ev("close", 0))
                        ELSE b.trace,
              !.conn = IF b.conn = "open" THEN "closed" ELSE b.conn,
              !.closes = IF b.conn = "open" THEN b.closes + 1 ELSE b.closes]

\* faulty variant: what is written last goes to the file first
WsWrite_Unordered(queue, chunk) == chunk \o queue

\* ws.write(chunk), and gzip's writes through pipe: the file stream keeps
\* what it is given in the order of the calls
WsWrite(queue, chunk) == queue \o chunk

\* the name the new backup file gets: one that sorts after the listed ones
NewName(listing) == IF listing = <<>> THEN 1
                    ELSE 1 + CHOOSE m \in Range(listing) : \A x \in Range(listing) : x <= m

\* lines 120-163: directory checks, connection, show databases, file name,
\* close; then either nothing to do, or the tag is handed to the file stream
\* and the dump is spawned with its stdout piped through crypt and gzip
BackupBegin ==
    /\ bk.pc = "idle"
    /\ LET b1 == [bk EXCEPT !.conn = "open", !.dbStart = db.exists,
                            \* line 129: use() is not awaited, nobody handles
                            \* the rejection it gets for a missing database
                            !.useRejected = ~db.exists,
                            !.trace = <<Ev("use", 0), Ev("show databases", 0)>>]
           b2 == IF opt.generator
                 THEN [b1 EXCEPT !.trace = Append(b1.trace, Ev("select _ver", 0))]
                 ELSE b1
           b3 == [b2 EXCEPT !.conn = "closed", !.closes = b2.closes + 1,
                            !.trace = Append(b2.trace, Ev("close", 0)),
                            !.outfile = NewName(fs.listing)]
       IN IF ~opt.hasDir THEN
              /\ bk' = BackupCatch(bk, ErrDirRequired)
              /\ UNCHANGED <<fs, enc>>
          ELSE IF opt.dirKind = "file" THEN
              /\ bk' = BackupCatch(bk, ErrNotDirectory)
              /\ UNCHANGED <<fs, enc>>
          ELSE IF opt.generator /\ (~db.exists \/ ~db.hasVer) THEN
              /\ bk' = BackupCatch(b2, ErrSql)
              /\ UNCHANGED <<fs, enc>>
          ELSE IF opt.generator /\ db.rows = {} THEN
              /\ bk' = BackupCatch(b2, ErrNoVersionRow)
              /\ UNCHANGED <<fs, enc>>
          ELSE IF ~db.exists THEN
              /\ bk' = [b3 EXCEPT !.pc = "done",
                                  !.logged = Append(b3.logged, "nothing to be done")]
              /\ UNCHANGED <<fs, enc>>
          ELSE
              /\ bk' = [b3 EXCEPT !.pc = "piping", !.ws = "open", !.dump = "running",
                                  !.wsBuf = WsWrite(<<>>, opt.tag),
                                  !.trace = Append(b3.trace, Ev("spawn mysqldump", 0))]
              /\ fs' = [listing |-> Append(fs.listing, NewName(fs.listing)),
                        kind |-> "file", content |-> <<>>]
              /\ enc' = [NewCryptStream EXCEPT !.src = plain]
    /\ UNCHANGED <<updVars, opt, plain, dec, rs>>

\* exec(cmd, { maxBuffer }) leaves the encoding option at 'utf8', so stdout
\* emits decoded strings, which the next stream turns back into bytes: a
\* byte below 128 is kept, a byte that is no UTF-8 (255) comes back as the
\* three bytes of U+FFFD. (Multi-byte sequences are outside ByteInputs.)
RECURSIVE ExecStdout(_)
ExecStdout(s) ==
    IF s = <<>> THEN <<>>
    ELSE (IF s[1] < 128 THEN <<s[1]>> ELSE <<239, 191, 189>>) \o ExecStdout(Tail(s))

\* lines 161-162: the dump writes a chunk to stdout, the crypt stream
\* transforms what stdout emits for it and hands it to gzip
DumpData(n) ==
    /\ bk.pc = "piping" /\ bk.dump = "running" /\ bk.uncaught = "none"
    /\ n \in 1..Len(enc.src)
    /\ LET t == CryptTransform(opt.password, enc.index, ExecStdout(SubSeq(enc.src, 1, n)))
       IN enc' = [index |-> t.index,
                  src |-> SubSeq(enc.src, n + 1, Len(enc.src)),
                  out |-> enc.out \o t.out,
                  chunks |-> Append(enc.chunks, n)]
    /\ UNCHANGED <<updVars, opt, plain, dec, pipeVars>>

\* line 162: the dump exits with a code, after all of its output when the
\* code is 0 and at any point otherwise; stdout ends, the crypt stream ends,
\* gzip hands its output to the file stream and ends it. Nothing listens
\* for the exit of the process, the code is not looked at
DumpEnd(code) ==
    /\ bk.pc = "piping" /\ bk.dump = "running" /\ bk.uncaught = "none"
    /\ code = {0} => enc.src = <<>>
    /\ bk' = [bk EXCEPT !.dump = "ended", !.exit = code,
                        !.wsBuf = WsWrite(bk.wsBuf, Gzip(enc.out))]
    /\ UNCHANGED <<updVars, cryptVars, fs, rs>>

\* lines 150-163: gzip or the file stream emits 'error'. No stream has an
\* 'error' listener and the promise has no reject: the event is thrown as an
\* uncaught exception of the process, the promise of backup is never settled
BackupStreamError(stream) ==
    /\ bk.pc = "piping" /\ bk.ws = "open" /\ bk.uncaught = "none"
    /\ bk' = [bk EXCEPT !.uncaught = stream]
    /\ UNCHANGED <<updVars, cryptVars, fs, rs>>

\* the file stream writes what was queued, in order
WsFlush ==
    /\ bk.pc = "piping" /\ bk.ws = "open" /\ bk.uncaught = "none"
    /\ bk.wsBuf # <<>>
    /\ fs' = [fs EXCEPT !.content = fs.content \o bk.wsBuf]
    /\ bk' = [bk EXCEPT !.wsBuf = <<>>]
    /\ UNCHANGED <<updVars, cryptVars, rs>>

\* lines 163-165: the file stream emits 'close', backup resolves
WsClose ==
    /\ bk.pc = "piping" /\ bk.ws = "open" /\ bk.uncaught = "none"
    /\ bk.dump = "ended" /\ bk.wsBuf = <<>>
    /\ bk' = [bk EXCEPT !.pc = "done", !.ws = "closed",
                        !.logged = Append(bk.logged, "backup database")]
    /\ UNCHANGED <<updVars, cryptVars, fs, rs>>

(***************************************************************************)
(* restore                                                                 *)
(***************************************************************************)
ErrFileRequired == "backup file is required"
ErrReaddir == "readdir error"
ErrNotExists == "file not exists"
ErrNotFile == "file is not a file"
ErrNotBackup == "file is not a backup file"
ErrGunzip == "gunzip: error"

IdleRestore ==
    [pc |-> "idle", filename |-> 0, reader |-> "none", conn |-> "none",
     closes |-> 0, err |-> NoErr, cause |-> NoErr, trace |-> <<>>,
     logged |-> <<>>, promise |-> "none", cp |-> "none", exit |-> {}, killed |-> FALSE,
     gunzip |-> "none", stdinEnded |-> FALSE]

\* the catch block of restore: log, close the connection if one is held,
\* rethrow the error that was caught
RestoreCatch(r, e) ==
    [r EXCEPT !.pc = "failed", !.cause = e, !.err = e,
              !.logged = Append(r.logged, "error"),
              !.trace = IF r.conn = "open" THEN Append(r.trace, Ev("close", 0))
                        ELSE r.trace,
              !.conn = IF r.conn = "open" THEN "closed" ELSE r.conn,
              !.closes = IF r.conn = "open" THEN r.closes + 1 ELSE r.closes]

\* option.file, else the first entry of the reversed directory listing
ResolveFile(o, listing) ==
    IF o.file # 0 THEN o.file
    ELSE IF ~o.hasDir THEN 0
    ELSE IF listing = <<>> THEN 0
    ELSE listing[Len(listing)]

\* createReadStream(filename, { start: tag.length })
Payload(content, tag) == SubSeq(content, Len(tag) + 1, Len(content))

\* faulty variant: only the length of the first chunk is compared
TagMatches_LengthOnly(tag, di) == Len(di) = Len(tag)

\* Buffer.compare(backupFileTag, Buffer.from(di)) == 0
TagMatches(tag, di) == di = tag

\* createReadStream(filename, { start: 0, end: tag.length - 1 }): its first chunk
FirstChunk(content, tag) ==
    SubSeq(content, 1, IF Len(content) < Len(tag) THEN Len(content) ELSE Len(tag))

\* what is at the path of the backup directory: backup has made the
\* directory when it was missing (mkdirp)
DirKind ==
    IF opt.hasDir /\ opt.dirKind = "missing" /\ bk.pc # "idle" THEN "dir"
    ELSE opt.dirKind

\* lines 132-152: resolve the file, check it, open the stream that reads the tag
RestoreBegin ==
    /\ rs.pc = "idle"
    /\ bk.pc # "piping"
    /\ LET name == ResolveFile(opt, fs.listing)
           r1 == [rs EXCEPT !.filename = name]
       IN IF opt.file = 0 /\ opt.hasDir /\ DirKind # "dir"
              THEN rs' = RestoreCatch(rs, ErrReaddir)
          ELSE IF name = 0 THEN rs' = RestoreCatch(r1, ErrFileRequired)
          ELSE IF fs.kind = "missing" THEN rs' = RestoreCatch(r1, ErrNotExists)
          ELSE IF fs.kind # "file" THEN rs' = RestoreCatch(r1, ErrNotFile)
          ELSE rs' = [r1 EXCEPT !.pc = "verify", !.reader = "open"]
    /\ UNCHANGED <<updVars, cryptVars, fs, bk>>

\* lines 147-155: the stream emits its first chunk; the handler closes the
\* stream and resolves with the comparison; restore goes on or throws
VerifyData ==
    /\ rs.pc = "verify" /\ rs.reader = "open"
    /\ fs.content # <<>>
    /\ rs' = IF TagMatches(opt.tag, FirstChunk(fs.content, opt.tag))
             THEN [rs EXCEPT !.pc = "connected", !.reader = "closed", !.conn = "open"]
             ELSE RestoreCatch([rs EXCEPT !.reader = "closed"], ErrNotBackup)
    /\ UNCHANGED <<updVars, cryptVars, fs, bk>>

\* the file is empty: the stream ends without a 'data' event, and nothing
\* listens for 'end' or 'close'
VerifyEnd ==
    /\ rs.pc = "verify" /\ rs.reader = "open"
    /\ fs.content = <<>>
    /\ rs' = [rs EXCEPT !.reader = "ended"]
    /\ UNCHANGED <<updVars, cryptVars, fs, bk>>

\* lines 157-183: show databases, drop the database if it is there, create
\* it anew, close the connection, spawn mysql and pipe the file into it
RestoreRecreateDb ==
    /\ rs.pc = "connected"
    /\ rs' = [rs EXCEPT !.pc = "piping", !.conn = "closed", !.closes = rs.closes + 1,
                 !.trace = <<Ev("show databases", 0)>>
                           \o (IF db.exists THEN <<Ev("drop database", 0)>> ELSE <<>>)
                           \o <<Ev("create database", 0), Ev("close", 0),
                                Ev("spawn mysql", 0)>>,
                 !.logged = rs.logged \o (IF db.exists THEN <<"info">> ELSE <<>>) \o <<"info">>,
                 !.promise = "pending", !.cp = "running", !.gunzip = "open"]
    /\ db' = [exists |-> TRUE, hasVer |-> FALSE, rows |-> {}]
    /\ dec' = NewCryptStream
    /\ UNCHANGED <<versions, upd, prev, opt, plain, enc, fs, bk>>

\* line 183: gunzip pushes the decompressed stream towards the crypt stream
GunzipData ==
    /\ rs.cp = "running" /\ rs.gunzip = "open"
    /\ GunzipOk(Payload(fs.content, opt.tag))
    /\ dec' = [dec EXCEPT !.src = Gunzip(Payload(fs.content, opt.tag))]
    /\ rs' = [rs EXCEPT !.gunzip = "ended"]
    /\ UNCHANGED <<updVars, opt, plain, enc, fs, bk>>

\* lines 179-182: gunzip emits 'error': the process is killed and the
\* promise rejected, which has an effect only while it is pending
GunzipError ==
    /\ rs.gunzip = "open"
    /\ rs.cp # "none"
    /\ ~GunzipOk(Payload(fs.content, opt.tag))
    /\ LET r1 == [rs EXCEPT !.gunzip = "errored",
                            !.killed = (rs.cp = "running") \/ rs.killed]
       IN rs' = IF rs.promise = "pending"
                THEN RestoreCatch([r1 EXCEPT !.promise = "rejected"], ErrGunzip)
                ELSE r1
    /\ UNCHANGED <<updVars, cryptVars, fs, bk>>

\* line 183: the crypt stream transforms a chunk and writes it to stdin
StdinData(n) ==
    /\ rs.cp = "running" /\ ~rs.killed
    /\ n \in 1..Len(dec.src)
    /\ dec' = CryptWrite(dec, opt.password, n)
    /\ UNCHANGED <<updVars, opt, plain, enc, pipeVars>>

\* line 183: everything was piped, stdin is ended
StdinEnd ==
    /\ rs.cp = "running" /\ ~rs.killed
    /\ rs.gunzip = "ended" /\ dec.src = <<>> /\ ~rs.stdinEnded
    /\ rs' = [rs EXCEPT !.stdinEnded = TRUE]
    /\ UNCHANGED <<updVars, cryptVars, fs, bk>>

\* lines 176, 185: the process closes with an exit code (none when killed);
\* the handler resolves with code == 0, restore logs success and returns
CpClose(code) ==
    /\ rs.cp = "running"
    /\ IF rs.killed THEN code = {}
       ELSE code # {} /\ (code = {0} => rs.stdinEnded)
    /\ LET r1 == [rs EXCEPT !.cp = "closed", !.exit = code]
       IN rs' = IF rs.promise = "pending"
                THEN [r1 EXCEPT !.promise = "resolved", !.pc = "done",
                                !.logged = Append(r1.logged, "restore successfully")]
                ELSE r1
    /\ UNCHANGED <<updVars, cryptVars, fs, bk>>

(***************************************************************************)
(* Specifications                                                          *)
(***************************************************************************)
DbInits ==
    {[exists |-> FALSE, hasVer |-> FALSE, rows |-> {}],
     [exists |-> TRUE, hasVer |-> FALSE, rows |-> {}]}
    \cup {[exists |-> TRUE, hasVer |-> TRUE, rows |-> A] : A \in SUBSET AppliedInputs}

\* dbu.version(ver, program) pushes in call order; program k is the k-th declared
Declared(vers) == [k \in 1..Len(vers) |-> [ver |-> vers[k], program |-> k]]

Init ==
    /\ versions \in {Declared(s) : s \in SeqsUpTo(VerInputs, MaxDeclared)}
    /\ db \in DbInits
    /\ upd = IdleCall
    /\ prev = NoPrev
    /\ opt = NoOptions
    /\ plain = <<>>
    /\ enc = NewCryptStream
    /\ dec = NewCryptStream
    /\ fs = NoFiles
    /\ bk = IdleBackup
    /\ rs = IdleRestore

Next ==
    \/ \E t \in {<<>>} \cup {<<x>> : x \in TargetInputs}, c \in BOOLEAN : UpdateBegin(t, c)
    \/ UpdateInitDb
    \/ UpdateSelect
    \/ UpdateSkip
    \/ ProgramStart
    \/ ProgramReturn
    \/ ProgramThrow
    \/ InsertOk
    \/ InsertFail
    \/ UpdateEnd

Spec == Init /\ [][Next]_vars

InitCrypt ==
    /\ versions = <<>>
    /\ db = [exists |-> FALSE, hasVer |-> FALSE, rows |-> {}]
    /\ upd = IdleCall
    /\ prev = NoPrev
    /\ opt \in {[NoOptions EXCEPT !.password = p] : p \in PasswordInputs}
    /\ plain \in SeqsUpTo(ByteInputs, MaxLen)
    /\ enc = [NewCryptStream EXCEPT !.src = plain]
    /\ dec = NewCryptStream
    /\ fs = NoFiles
    /\ bk = IdleBackup
    /\ rs = IdleRestore

NextCrypt ==
    \/ \E n \in 1..MaxLen + 1 : EncryptChunk(n)
    \/ \E n \in 1..MaxLen + 1 : DecryptChunk(n)

SpecCrypt == InitCrypt /\ [][NextCrypt]_vars

\* restore pointed at any small file, directory or missing path
FsInits ==
    {[listing |-> l, kind |-> k, content |-> <<>>] :
        l \in ListingInputs, k \in {"missing", "dir"}}
    \cup {[listing |-> l, kind |-> "file", content |-> c] :
            l \in ListingInputs, c \in SeqsUpTo(FileByteInputs, MaxFile)}

InitRestore ==
    /\ versions = <<>>
    /\ db \in {[exists |-> FALSE, hasVer |-> FALSE, rows |-> {}],
               [exists |-> TRUE, hasVer |-> TRUE, rows |-> {1000}]}
    /\ upd = IdleCall
    /\ prev = NoPrev
    /\ opt \in {[NoOptions EXCEPT !.password = p, !.tag = t, !.file = f, !.hasDir = h] :
                  p \in {<<>>, <<1>>}, t \in TagInputs, f \in {0, 1}, h \in BOOLEAN}
    /\ fs \in FsInits
    \* a name taken from the listing is the name of something that exists
    /\ (opt.file = 0) => fs.kind # "missing"
    /\ plain = <<>>
    /\ enc = NewCryptStream
    /\ dec = NewCryptStream
    /\ bk = IdleBackup
    /\ rs = IdleRestore

NextRestore ==
    \/ RestoreBegin
    \/ VerifyData
    \/ VerifyEnd
    \/ RestoreRecreateDb
    \/ GunzipData
    \/ GunzipError
    \/ \E n \in 1..MaxFile : StdinData(n)
    \/ StdinEnd
    \/ \E code \in {{}, {0}, {1}} : CpClose(code)

SpecRestore == InitRestore /\ [][NextRestore]_vars

\* backup of a database whose dump is `plain`, then restore of that file
InitPipe ==
    /\ versions = <<>>
    /\ db \in {[exists |-> FALSE, hasVer |-> FALSE, rows |-> {}],
               [exists |-> TRUE, hasVer |-> FALSE, rows |-> {}],
               [exists |-> TRUE, hasVer |-> TRUE, rows |-> {}],
               [exists |-> TRUE, hasVer |-> TRUE, rows |-> {1000}]}
    /\ upd = IdleCall
    /\ prev = NoPrev
    /\ opt \in {[NoOptions EXCEPT !.password = p, !.tag = t, !.hasDir = h,
                                  !.dirKind = k, !.generator = g] :
                  p \in PasswordInputs, t \in TagInputs, h \in BOOLEAN,
                  k \in {"dir", "missing", "file"}, g \in BOOLEAN}
    /\ ~opt.hasDir => opt.dirKind = "missing"
    /\ fs = NoFiles
    /\ plain \in SeqsUpTo(ByteInputs, MaxLen)
    /\ enc = NewCryptStream
    /\ dec = NewCryptStream
    /\ bk = IdleBackup
    /\ rs = IdleRestore

NextPipe ==
    \/ BackupBegin
    \/ \E n \in 1..MaxLen + 1 : DumpData(n)
    \/ DumpEnd({0})
    \/ WsFlush
    \/ WsClose
    \/ bk.pc = "done" /\ RestoreBegin
    \/ VerifyData
    \/ RestoreRecreateDb
    \/ GunzipData
    \/ \E n \in 1..MaxLen + 1 : StdinData(n)
    \/ StdinEnd
    \/ \E code \in {{}, {0}, {1}} : CpClose(code)

SpecPipe == InitPipe /\ [][NextPipe]_vars

\* backup alone, with a dump that may fail and streams that may raise errors
InitBackup ==
    /\ versions = <<>>
    /\ db \in {[exists |-> FALSE, hasVer |-> FALSE, rows |-> {}],
               [exists |-> TRUE, hasVer |-> FALSE, rows |-> {}],
               [exists |-> TRUE, hasVer |-> TRUE, rows |-> {}],
               [exists |-> TRUE, hasVer |-> TRUE, rows |-> {1000}]}
    /\ upd = IdleCall
    /\ prev = NoPrev
    /\ opt \in {[NoOptions EXCEPT !.password = p, !.tag = t, !.hasDir = h,
                                  !.dirKind = k, !.generator = g] :
                  p \in {<<>>, <<1, 2>>}, t \in TagInputs, h \in BOOLEAN,
                  k \in {"dir", "missing", "file"}, g \in BOOLEAN}
    /\ ~opt.hasDir => opt.dirKind = "missing"
    /\ fs = NoFiles
    /\ plain \in SeqsUpTo(ByteInputs, MaxLen)
    /\ enc = NewCryptStream
    /\ dec = NewCryptStream
    /\ bk = IdleBackup
    /\ rs = IdleRestore

NextBackup ==
    \/ BackupBegin
    \/ \E n \in 1..MaxLen + 1 : DumpData(n)
    \/ \E code \in {{0}, {1}} : DumpEnd(code)
    \/ \E stream \in {"gzip", "ws"} : BackupStreamError(stream)
    \/ WsFlush
    \/ WsClose

SpecBackup == InitBackup /\ [][NextBackup]_vars

\* the three operations one after the other, as a caller runs them: one
\* update, then a backup, then a restore from the backup directory
OpsDeclared == {<<>>, <<1000>>, <<2000, 1000>>}

InitOps ==
    /\ versions \in {Declared(s) : s \in OpsDeclared}
    /\ db \in {[exists |-> FALSE, hasVer |-> FALSE, rows |-> {}],
               [exists |-> TRUE, hasVer |-> FALSE, rows |-> {}],
               [exists |-> TRUE, hasVer |-> TRUE, rows |-> {}],
               [exists |-> TRUE, hasVer |-> TRUE, rows |-> {1000}]}
    /\ upd = IdleCall
    /\ prev = NoPrev
    /\ opt \in {[NoOptions EXCEPT !.password = p, !.tag = <<1>>, !.hasDir = h,
                                  !.dirKind = k, !.generator = g] :
                  p \in {<<>>, <<1>>}, h \in BOOLEAN,
                  k \in {"dir", "missing", "file"}, g \in BOOLEAN}
    /\ ~opt.hasDir => opt.dirKind = "missing"
    /\ fs = NoFiles
    /\ plain \in SeqsUpTo({0, 1}, 1)
    /\ enc = NewCryptStream
    /\ dec = NewCryptStream
    /\ bk = IdleBackup
    /\ rs = IdleRestore

NextOps ==
    \/ /\ upd.calls = 0 /\ bk.pc = "idle"
       /\ \E t \in {<<>>, <<1000>>}, c \in BOOLEAN : UpdateBegin(t, c)
    \/ UpdateInitDb
    \/ UpdateSelect
    \/ UpdateSkip
    \/ ProgramStart
    \/ ProgramReturn
    \/ ProgramThrow
    \/ InsertOk
    \/ InsertFail
    \/ UpdateEnd
    \/ upd.pc \in {"idle", "done", "failed"} /\ BackupBegin
    \/ \E n \in 1..2 : DumpData(n)
    \/ \E code \in {{0}, {1}} : DumpEnd(code)
    \/ \E stream \in {"gzip", "ws"} : BackupStreamError(stream)
    \/ WsFlush
    \/ WsClose
    \/ bk.pc \in {"done", "failed"} /\ RestoreBegin
    \/ VerifyData
    \/ RestoreRecreateDb
    \/ GunzipData
    \/ \E n \in 1..2 : StdinData(n)
    \/ StdinEnd
    \/ \E code \in {{}, {0}, {1}} : CpClose(code)

SpecOps == InitOps /\ [][NextOps]_vars

(***************************************************************************)
(* Properties of update                                                    *)
(***************************************************************************)
\* a statement or event of the kind op is in the trace
Issued(tr, op) == \E k \in 1..Len(tr) : tr[k].op = op

\* the nearest hundredth of v, stated without reference to the code
Round2(v) ==
    CHOOSE r \in {10 * (v \div 10), 10 * (v \div 10) + 10} : r - 5 < v /\ v < r + 5

RoundedSet(decl) == {Round2(decl[k].ver) : k \in 1..Len(decl)}

HasRoundedDuplicate(decl) ==
    \E j, k \in 1..Len(decl) : j # k /\ Round2(decl[j].ver) = Round2(decl[k].ver)

HasNonPositive(decl) == \E k \in 1..Len(decl) : Round2(decl[k].ver) <= 0

SetMax(S) == CHOOSE m \in S : \A x \in S : x <= m

NoStepRun(u) == \A k \in 1..Len(u.trace) : u.trace[k].op \notin {"program", "insert _ver"}

UntouchedDb(u) == u.conn = "none" /\ u.closes = 0 /\ u.trace = <<>>

\* C1 as stated: a declared list with two versions equal after rounding makes
\* update fail with the duplicate-version error before any connection or SQL
C1_Original ==
    (upd.pc # "idle" /\ HasRoundedDuplicate(upd.declared)) =>
        (upd.pc = "failed" /\ upd.err = ErrSame /\ UntouchedDb(upd))

\* C1 amended: such a list makes update fail before any connection or SQL
\* statement, with the duplicate-version error when every rounded version is
\* positive and with the invalid-version error when one is not
C1_DuplicateFailsBeforeDb ==
    (upd.pc # "idle" /\ HasRoundedDuplicate(upd.declared)) =>
        /\ upd.pc = "failed"
        /\ UntouchedDb(upd)
        /\ db.rows = upd.tblStart /\ db.exists = upd.dbStart
        /\ upd.err = IF HasNonPositive(upd.declared) THEN ErrInvalid ELSE ErrSame

\* 2.996 and 3.00 were declared and the call failed on the duplicate
C1_Witness ==
    /\ upd.pc = "failed" /\ upd.err = ErrSame
    /\ \E j, k \in 1..Len(upd.declared) :
          upd.declared[j].ver = 2996 /\ upd.declared[k].ver = 3000

TargetUnknown(u) == u.target # <<>> /\ u.target[1] \notin RoundedSet(u.declared)

\* C2 as stated: a requested target that is not a declared (rounded) version
\* makes update fail with the unknown-version error, no program, no row
C2_Original ==
    (upd.pc # "idle" /\ TargetUnknown(upd)) =>
        (upd.pc = "failed" /\ upd.err = ErrUnknown /\ NoStepRun(upd)
         /\ db.rows = upd.tblStart)

\* C2 amended: such a target makes update fail without running a program or
\* inserting a row; the error is the unknown-version error when the declared
\* list is non-empty, positive and free of duplicates, and the validation
\* error of the declared list otherwise
C2_UnknownTargetFails ==
    (upd.pc # "idle" /\ TargetUnknown(upd)) =>
        /\ upd.pc = "failed"
        /\ NoStepRun(upd)
        /\ db.rows = upd.tblStart
        /\ upd.err = IF HasNonPositive(upd.declared) THEN ErrInvalid
                     ELSE IF HasRoundedDuplicate(upd.declared) THEN ErrSame
                     ELSE IF Len(upd.declared) = 0 THEN ErrNone
                     ELSE ErrUnknown

\* target 2.996 was requested where 3.00 is declared
C2_Witness ==
    /\ upd.pc = "failed" /\ upd.err = ErrUnknown
    /\ upd.target = <<2996>> /\ 3000 \in RoundedSet(upd.declared)

\* C3: after a successful call, a second call with the same target runs no
\* program and leaves the rows of the tracking table unchanged
C3_SecondCallIsNoOp ==
    (prev.any /\ prev.ok /\ prev.target = upd.target) =>
        (ProgramsOf(upd.trace) = <<>> /\ NoStepRun(upd) /\ db.rows = upd.tblStart)

\* the second call finished after a first call that ran two steps
C3_Witness ==
    /\ prev.any /\ upd.pc = "done" /\ prev.ok
    /\ prev.target = upd.target /\ Len(prev.ran) >= 2

\* the target the caller asked for: the requested one, else the highest declared
TargetOf(u) == IF u.target # <<>> THEN u.target[1] ELSE SetMax(RoundedSet(u.declared))

PendingSteps(u) ==
    {v \in RoundedSet(u.declared) :
        v <= TargetOf(u) /\ ~\E a \in u.tblStart : a >= v}

\* C4: a successful call runs exactly the declared steps at or below the
\* target that no row present at the start dominates, each once, and the
\* table then holds the old rows plus those; update(1.00) then update() with
\* {1.00, 2.00} declared on an empty table runs 1.00, then 2.00
C4_RunsExactlyPending ==
    /\ upd.pc = "done" =>
          /\ Range(ProgramsOf(upd.trace)) = PendingSteps(upd)
          /\ Len(ProgramsOf(upd.trace)) = Cardinality(PendingSteps(upd))
          /\ db.rows = upd.tblStart \cup PendingSteps(upd)
    /\ (/\ upd.pc = "done" /\ prev.any /\ prev.ok
        /\ prev.target = <<1000>> /\ upd.target = <<>>
        /\ RoundedSet(upd.declared) = {1000, 2000} /\ prev.tblStart = {})
          => (prev.ran = <<1000>> /\ ProgramsOf(upd.trace) = <<2000>>)

\* the second call of the scenario has finished
C4_Witness ==
    /\ upd.pc = "done" /\ prev.any /\ prev.ok
    /\ prev.target = <<1000>> /\ upd.target = <<>>
    /\ RoundedSet(upd.declared) = {1000, 2000} /\ prev.tblStart = {}
    /\ ProgramsOf(upd.trace) = <<2000>> /\ db.rows = {1000, 2000}

ProgramAt(tr) == {k \in 1..Len(tr) : tr[k].op = "program"}

\* C15: within one run the programs are started in strictly ascending
\* version order, one at a time: a program that is not the last event has
\* returned and its row was sent right after it, an insert follows its own
\* program, and the row is in the table before a later program is started
C15_StepsRunInOrderOneAtATime ==
    LET tr == upd.trace
    IN /\ \A j, k \in ProgramAt(tr) : j < k =>
              /\ tr[j].ver < tr[k].ver
              /\ tr[j].ver \in db.rows
       /\ \A k \in ProgramAt(tr) : k < Len(tr) => tr[k + 1] = Ev("insert _ver", tr[k].ver)
       /\ \A m \in 1..Len(tr) : tr[m].op = "insert _ver" =>
              (m > 1 /\ tr[m - 1] = Ev("program", tr[m].ver))
       /\ upd.pc # "idle" =>
              \A v \in db.rows \ upd.tblStart : Ev("insert _ver", v) \in Range(tr)
       /\ upd.pc = "program" => tr[Len(tr)].op = "program"

\* 2.00 was declared before 1.00 and the run started 1.00, then 2.00
C15_Witness ==
    /\ upd.pc = "done" /\ ProgramsOf(upd.trace) = <<1000, 2000>>
    /\ Len(upd.declared) >= 2 /\ upd.declared[1].ver = 2000
    /\ db.rows = {1000, 2000}

\* the call failed in the program of a step or in the insert of its row
FailedInStep(u) ==
    /\ u.pc = "failed" /\ u.trace # <<>>
    /\ u.trace[Len(u.trace)].op \in {"program", "insert _ver"}

\* C16: when the program of a step or the insert of its row raises an
\* error, that step is the last one started, its version is not recorded,
\* the table holds the rows it had plus those of the steps run before, no
\* row is removed, and the error is raised to the caller
C16_FailedStepStopsTheRun ==
    /\ FailedInStep(upd) =>
          LET ran == ProgramsOf(upd.trace)
              v == upd.trace[Len(upd.trace)].ver
          IN /\ ran[Len(ran)] = v
             /\ v \notin db.rows
             /\ db.rows = upd.tblStart \cup (Range(ran) \ {v})
             /\ upd.err \in {ErrProgram, ErrSql} /\ upd.err = upd.cause
             /\ upd.ret = {}
    /\ upd.pc # "idle" => upd.tblStart \subseteq db.rows

\* the insert of 2.00 failed after 1.00 was run and recorded
C16_Witness ==
    /\ FailedInStep(upd) /\ upd.err = ErrSql
    /\ upd.trace[Len(upd.trace)] = Ev("insert _ver", 2000)
    /\ ProgramsOf(upd.trace) = <<1000, 2000>> /\ db.rows = {1000}

\* C17: in every run that passes validation the table _ver exists in the
\* database when the applied versions are read from it, whether the database
\* was missing or was there at the start, with or without a _ver table
C17_TrackingTableExistsBeforeRead ==
    Issued(upd.trace, "select _ver") => db.hasVer

\* 1.00, 2.00 and 3.00 are declared, 1.00 and 3.00 are applied, no target
GapCase(u) ==
    /\ u.pc \in {"done", "failed"}
    /\ Len(u.declared) = 3 /\ RoundedSet(u.declared) = {1000, 2000, 3000}
    /\ u.tblStart = {1000, 3000} /\ u.target = <<>>

\* C18 as stated: with such a gap update runs the program of 2.00 and
\* records it, without an error
C18_Original ==
    GapCase(upd) =>
        (upd.pc = "done" /\ 2000 \in Range(ProgramsOf(upd.trace)) /\ 2000 \in db.rows)

\* C18 amended: a declared version below an applied one is never run; with
\* such a gap update runs no program, leaves the table as it is, logs that
\* nothing is to be updated and raises no error
C18_GapIsSkipped ==
    /\ \A k \in ProgramAt(upd.trace) : \A a \in upd.tblStart : a < upd.trace[k].ver
    /\ GapCase(upd) =>
          /\ upd.pc = "done" /\ upd.err = NoErr
          /\ ProgramsOf(upd.trace) = <<>>
          /\ db.rows = {1000, 3000}
          /\ upd.logged[Len(upd.logged)] = "nothing to be updated"

\* the call on the table with the gap has returned
C18_Witness ==
    GapCase(upd) /\ upd.pc = "done" /\ 2000 \notin db.rows

(***************************************************************************)
(* Properties of the crypt stream                                          *)
(***************************************************************************)
IsPrefix(p, s) == Len(p) <= Len(s) /\ p = SubSeq(s, 1, Len(p))

\* C9: two crypt streams with the same password in a row give back the
\* bytes written to the first, however either side is cut into chunks;
\* without a password a stream pushes what it is given
C9_CryptRoundTrip ==
    /\ IsPrefix(dec.out, plain)
    /\ (enc.src = <<>> /\ dec.src = <<>>) => dec.out = plain
    /\ Len(opt.password) = 0 => IsPrefix(enc.out, plain)

\* three bytes went through under a two byte password, cut 1+2 on the
\* first stream and 2+1 on the second, and the ciphered bytes differ
C9_Witness ==
    /\ Len(opt.password) = 2 /\ Len(plain) = 3
    /\ enc.chunks = <<1, 2>> /\ dec.chunks = <<2, 1>>
    /\ enc.out # plain /\ dec.out = plain

(***************************************************************************)
(* Properties of backup and restore                                        *)
(***************************************************************************)
\* the first Len(tag) bytes of the file are the tag
HasTag(content, tag) == Len(content) >= Len(tag) /\ SubSeq(content, 1, Len(tag)) = tag

\* the tag was looked for in the file and the stream that reads it is over
TagReadOver == rs.reader \in {"closed", "ended"}

\* C6: a regular file that does not start with the tag makes restore fail
\* with the not-a-backup-file error: once the stream reading the tag is
\* over, restore has failed with it (no success, no pending forever)
C6_NotABackupFileFails ==
    (TagReadOver /\ ~HasTag(fs.content, opt.tag)) =>
        (rs.pc = "failed" /\ rs.err = ErrNotBackup)

SourceChecksPassed ==
    /\ rs.filename # 0
    /\ fs.kind = "file"
    /\ HasTag(fs.content, opt.tag)

\* C7: restore opens no connection and issues no drop or create database
\* unless a path was resolved, it is a regular file and its tag matches
C7_NothingDestructiveBeforeChecks ==
    (\/ rs.conn # "none"
     \/ Issued(rs.trace, "drop database")
     \/ Issued(rs.trace, "create database")
     \/ rs.cp # "none")
        => SourceChecksPassed

\* restore dropped the old database of a file that carries the two byte tag
C7_Witness ==
    /\ Issued(rs.trace, "drop database") /\ Issued(rs.trace, "create database")
    /\ rs.conn = "closed"
    /\ Len(opt.tag) = 2 /\ HasTag(fs.content, opt.tag)

\* cipher(D): byte i of the whole stream xor-ed with the repeating password
CipherOf(D, password) ==
    IF Len(password) = 0 THEN D
    ELSE [i \in 1..Len(D) |-> Xor(D[i], password[((i - 1) % Len(password)) + 1])]

\* C8: the file backup writes is tag, then compress(cipher(D)) for the
\* dump output D, and restore on that file feeds mysql a stream equal to D
C8_BackupRestoreRoundTrip ==
    /\ (bk.pc = "done" /\ bk.ws = "closed") =>
          fs.content = opt.tag \o Gzip(CipherOf(plain, opt.password))
    /\ rs.cp # "none" =>
          /\ IsPrefix(dec.out, plain)
          /\ rs.stdinEnded => dec.out = plain

\* C10: restore succeeds only if mysql exited with code 0; when the process
\* closes with another code restore fails and reports no success
C10_NonZeroExitFails ==
    /\ rs.pc = "done" => rs.exit = {0}
    /\ (rs.cp = "closed" /\ rs.exit # {0}) =>
          (rs.pc = "failed" /\ ~Issued([k \in 1..Len(rs.logged) |-> [op |-> rs.logged[k]]],
                                       "restore successfully"))

Logged(lg, msg) == \E k \in 1..Len(lg) : lg[k] = msg

\* C11: when the dump exits with a non-zero code or a stream raises an
\* error, backup fails with that error; it reports success only when the
\* dump and the streams completed without error, and it is not left pending
C11_BackupFailsOnDumpOrStreamError ==
    /\ Logged(bk.logged, "backup database") => (bk.exit = {0} /\ bk.uncaught = "none")
    /\ (bk.dump = "ended" /\ bk.exit # {0} /\ bk.ws = "closed") => bk.pc = "failed"
    /\ bk.uncaught # "none" => (bk.pc = "failed" /\ bk.cause = bk.uncaught)

\* C14: when the database is not in the list of the server, backup, with
\* or without a filenameGenerator, reports "nothing to be done" and returns
\* without an error, spawns no dump and creates no file
C14_MissingDatabaseIsNoOp ==
    (Issued(bk.trace, "show databases") /\ ~bk.dbStart) =>
        /\ bk.pc = "done" /\ bk.err = NoErr
        /\ Logged(bk.logged, "nothing to be done")
        /\ ~Issued(bk.trace, "spawn mysqldump")
        /\ fs = NoFiles

\* C19: in a backup run that produces a file the tag is written to the
\* file before any byte of the compressed payload, and backup resolves and
\* reports success only after the file stream has emitted close, with all
\* that was queued written, not when the dump exits
C19_TagFirstSuccessAfterClose ==
    /\ bk.ws # "none" =>
          /\ IsPrefix(fs.content, opt.tag) \/ HasTag(fs.content, opt.tag)
          /\ bk.dump = "ended" =>
                fs.content \o bk.wsBuf = opt.tag \o Gzip(enc.out)
    /\ (bk.ws # "none" /\ (bk.pc = "done" \/ Logged(bk.logged, "backup database"))) =>
          /\ bk.ws = "closed" /\ bk.dump = "ended" /\ bk.wsBuf = <<>>
          /\ bk.pc = "done" /\ Logged(bk.logged, "backup database")
    /\ (bk.dump = "ended" /\ bk.ws = "open") => bk.pc = "piping"

\* the dump has exited and part of the file is still to be written: backup
\* is pending; the two byte tag is in the file, the payload is not
C19_Witness ==
    /\ bk.dump = "ended" /\ bk.ws = "open" /\ bk.pc = "piping"
    /\ Len(opt.tag) = 2 /\ fs.content = opt.tag /\ bk.wsBuf # <<>>

\* C20: without an explicit file restore selects the greatest entry name
\* of the backup directory, in whatever order the listing gives the entries;
\* with an empty directory or no directory it fails with the
\* backup-file-required error
C20_SelectsGreatestEntry ==
    (rs.pc # "idle" /\ opt.file = 0) =>
        IF opt.hasDir /\ fs.listing # <<>>
        THEN rs.filename = SetMax(Range(fs.listing))
        ELSE rs.pc = "failed" /\ rs.err = ErrFileRequired

\* C21: whenever gunzip raises an error during restore, the mysql process
\* is killed (or is over) and restore fails with the wrapped gunzip error,
\* whichever of the error and the close of the process comes first; no
\* success is reported
C21_GunzipErrorFailsRestore ==
    rs.gunzip = "errored" =>
        /\ rs.killed \/ rs.cp = "closed"
        /\ rs.pc = "failed" /\ rs.err = ErrGunzip
        /\ ~Logged(rs.logged, "restore successfully")

(***************************************************************************)
(* Properties of the three operations together                             *)
(***************************************************************************)
Count(tr, op) == Cardinality({k \in 1..Len(tr) : tr[k].op = op})

\* C12: in update, backup and restore the error raised to the caller is the
\* error that made the operation abort, and nothing is tried a second time
C12_ErrorPropagatesUnchanged ==
    /\ upd.pc = "failed" => upd.err = upd.cause
    /\ bk.pc = "failed" => bk.err = bk.cause
    /\ rs.pc = "failed" => rs.err = rs.cause
    /\ Len(ProgramsOf(upd.trace)) = Cardinality(Range(ProgramsOf(upd.trace)))
    /\ Count(bk.trace, "spawn mysqldump") <= 1
    /\ Count(rs.trace, "spawn mysql") <= 1

Settled(x) == x.pc \in {"done", "failed"}

\* the connection of the operation x was closed, once, if x has opened one
ClosedOnce(x) ==
    /\ x.closes <= 1
    /\ (Settled(x) /\ x.conn # "none") => (x.conn = "closed" /\ x.closes = 1)

\* the connection was closed before the executable was spawned
ClosedBefore(tr, spawn) ==
    \A k \in 1..Len(tr) :
        tr[k].op = spawn => \E j \in 1..(k - 1) : tr[j].op = "close"

====
